---- MODULE Spec2Model ----
(***************************************************************************)
(* Model of src/main.py: the bold-markup translator                        *)
(* attempt_to_parse_markdown and the context rewriter                      *)
(* process_context_for_richtext.                                           *)
(*                                                                         *)
(* Strings are sequences of one-character strings.  Python indices are     *)
(* 0-based and slices half-open; Slice(s, a, b) is s[a:b].                 *)
(* A RichText object is the sequence of the rt.add calls made on it.       *)
(* Python lists are objects on a heap (a sequence of list contents), and a *)
(* list value is a reference into it, so that aliasing and in-place        *)
(* rewriting are expressible.                                              *)
(***************************************************************************)
EXTENDS Integers, Sequences, FiniteSets, TLC

VARIABLES text_value, matches, mi, rt, last_index, ppc,
          context_data, heap, pc, ki, ii, processed_context, processed_list

parse_vars == <<text_value, matches, mi, rt, last_index, ppc>>
ctx_vars == <<context_data, heap, pc, ki, ii, processed_context, processed_list>>
vars == <<text_value, matches, mi, rt, last_index, ppc,
          context_data, heap, pc, ki, ii, processed_context, processed_list>>

----------------------------------------------------------------------------
(* Bounds and input alphabets                                              *)

MaxLen == 9

MaxItems == 2

STAR == "*"

NL == "\n"

Alphabet == {STAR, "a", NL}

RECURSIVE StringsUpTo(_)
StringsUpTo(n) ==
    IF n = 0 THEN {<<>>}
    ELSE LET shorter == StringsUpTo(n - 1)
         IN  shorter \cup {Append(s, c) : s \in {t \in shorter : Len(t) = n - 1}, c \in Alphabet}

Strings == StringsUpTo(MaxLen)

----------------------------------------------------------------------------
(* Python string helpers                                                   *)

Slice(s, a, b) == SubSeq(s, a + 1, b)

CharAt(s, i) == s[i + 1]

----------------------------------------------------------------------------
(* re.finditer(r'\*\*(.*?)\*\*', text_value)                               *)

\* The literal \*\* matches at 0-based position i.
StarsAt(text, i) ==
    /\ i >= 0
    /\ i + 2 <= Len(text)
    /\ CharAt(text, i) = STAR
    /\ CharAt(text, i + 1) = STAR

\* With the opening \*\* at i, the group (.*?) can stretch to [i+2, j) and the
\* closing \*\* match at j: '.' matches any character except a newline.
ClosesAt(text, i, j) ==
    /\ j >= i + 2
    /\ StarsAt(text, j)
    /\ \A p \in (i + 2)..(j - 1) : CharAt(text, p) # NL

\* A match can begin at position i.
MatchesAt(text, i) ==
    /\ StarsAt(text, i)
    /\ \E j \in (i + 2)..(Len(text) - 2) : ClosesAt(text, i, j)

\* Mutant: a greedy group (.*) takes the last closing delimiter.
GreedyClose(text, i) ==
    CHOOSE j \in (i + 2)..(Len(text) - 2) :
        /\ ClosesAt(text, i, j)
        /\ \A k \in (i + 2)..(Len(text) - 2) : ClosesAt(text, i, k) => k <= j

\* The non-greedy group (.*?) takes the first closing delimiter.
LazyClose(text, i) ==
    CHOOSE j \in (i + 2)..(Len(text) - 2) :
        /\ ClosesAt(text, i, j)
        /\ \A k \in (i + 2)..(Len(text) - 2) : ClosesAt(text, i, k) => j <= k

\* The match object for a match beginning at i: start(), end(), group(1).
MatchObject(text, i) ==
    LET j == LazyClose(text, i)
    IN  [start |-> i, end |-> j + 2, group |-> Slice(text, i + 2, j)]

\* The scan: leftmost match at or after pos, then on from its end.
RECURSIVE FindFrom(_, _)
FindFrom(text, pos) ==
    IF pos + 4 > Len(text) THEN <<>>
    ELSE IF MatchesAt(text, pos)
         THEN LET m == MatchObject(text, pos)
              IN  <<m>> \o FindFrom(text, m.end)
         ELSE FindFrom(text, pos + 1)

finditer(text) == FindFrom(text, 0)

----------------------------------------------------------------------------
(* attempt_to_parse_markdown                                               *)

FontSize == 22

\* rt.add(t, font='Calibri', size=22)
PlainRun(t) == [text |-> t, bold |-> FALSE, font |-> "Calibri", size |-> FontSize]

\* rt.add(t, bold=True, font='Calibri', size=22)
BoldRun(t) == [text |-> t, bold |-> TRUE, font |-> "Calibri", size |-> FontSize]

\* Mutant: the no-match branch suppresses a zero-length run.
NoMatchSkipEmpty(text) == IF text = <<>> THEN <<>> ELSE <<PlainRun(text)>>

\* Mutant: the no-match branch adds its run as bold.
NoMatchBold(text) == <<BoldRun(text)>>

\* if not matches: rt.add(text_value, ...); return rt
NoMatchResult(text) == <<PlainRun(text)>>

\* Mutant: the text before a match is never emitted.
LoopBodyNoPrefix(r, last, m, text) ==
    [rt |-> IF m.group # <<>> THEN Append(r, BoldRun(m.group)) ELSE r,
     last_index |-> m.end]

\* Mutant: the bold run is added even when the group is empty.
LoopBodyNoEmptyCheck(r, last, m, text) ==
    LET r1 == IF m.start > last
              THEN Append(r, PlainRun(Slice(text, last, m.start)))
              ELSE r
    IN  [rt |-> Append(r1, BoldRun(m.group)), last_index |-> m.end]

\* Mutant: the cursor stops before the closing delimiter.
LoopBodyShortCursor(r, last, m, text) ==
    LET r1 == IF m.start > last
              THEN Append(r, PlainRun(Slice(text, last, m.start)))
              ELSE r
        r2 == IF m.group # <<>> THEN Append(r1, BoldRun(m.group)) ELSE r1
    IN  [rt |-> r2, last_index |-> m.end - 2]

\* One iteration of "for match in matches".
LoopBody(r, last, m, text) ==
    LET r1 == IF m.start > last
              THEN Append(r, PlainRun(Slice(text, last, m.start)))
              ELSE r
        r2 == IF m.group # <<>> THEN Append(r1, BoldRun(m.group)) ELSE r1
    IN  [rt |-> r2, last_index |-> m.end]

\* if last_index < len(text_value): rt.add(text_value[last_index:], ...)
TrailingText(r, last, text) ==
    IF last < Len(text)
    THEN Append(r, PlainRun(Slice(text, last, Len(text))))
    ELSE r

RECURSIVE RunLoop(_, _, _, _, _)
RunLoop(r, last, ms, k, text) ==
    IF k > Len(ms) THEN TrailingText(r, last, text)
    ELSE LET s == LoopBody(r, last, ms[k], text)
         IN  RunLoop(s.rt, s.last_index, ms, k + 1, text)

\* The whole function, as the rewriter calls it.
attempt_to_parse_markdown(text) ==
    LET ms == finditer(text)
    IN  IF ms = <<>> THEN NoMatchResult(text)
        ELSE RunLoop(<<>>, 0, ms, 1, text)

----------------------------------------------------------------------------
(* attempt_to_parse_markdown as a step machine over one call               *)

\* Values the rewriter's variables hold while only the translator runs.
CtxIdle ==
    /\ context_data = <<>>
    /\ heap = <<>>
    /\ pc = [p \in {1, 2} |-> "done"]
    /\ ki = [p \in {1, 2} |-> 1]
    /\ ii = [p \in {1, 2} |-> 1]
    /\ processed_context = [p \in {1, 2} |-> <<>>]
    /\ processed_list = [p \in {1, 2} |-> 0]

\* rt = RichText(); last_index = 0; matches = list(re.finditer(...))
InitParse ==
    /\ text_value \in Strings
    /\ matches = finditer(text_value)
    /\ mi = 1
    /\ rt = <<>>
    /\ last_index = 0
    /\ ppc = "check"
    /\ CtxIdle

\* if not matches: rt.add(text_value, ...); return rt
ReturnNoMatch ==
    /\ ppc = "check"
    /\ matches = <<>>
    /\ rt' = NoMatchResult(text_value)
    /\ ppc' = "done"
    /\ UNCHANGED <<text_value, matches, mi, last_index>>
    /\ UNCHANGED ctx_vars

\* matches is non-empty: enter the for loop.
EnterLoop ==
    /\ ppc = "check"
    /\ matches # <<>>
    /\ ppc' = "loop"
    /\ UNCHANGED <<text_value, matches, mi, rt, last_index>>
    /\ UNCHANGED ctx_vars

\* for match in matches: ...
LoopStep ==
    /\ ppc = "loop"
    /\ mi <= Len(matches)
    /\ LET s == LoopBody(rt, last_index, matches[mi], text_value)
       IN  /\ rt' = s.rt
           /\ last_index' = s.last_index
    /\ mi' = mi + 1
    /\ UNCHANGED <<text_value, matches, ppc>>
    /\ UNCHANGED ctx_vars

\* After the loop: the trailing text, then return rt.
ReturnAfterLoop ==
    /\ ppc = "loop"
    /\ mi > Len(matches)
    /\ rt' = TrailingText(rt, last_index, text_value)
    /\ ppc' = "done"
    /\ UNCHANGED <<text_value, matches, mi, last_index>>
    /\ UNCHANGED ctx_vars

NextParse ==
    \/ ReturnNoMatch
    \/ EnterLoop
    \/ LoopStep
    \/ ReturnAfterLoop

SpecParse == InitParse /\ [][NextParse]_vars

----------------------------------------------------------------------------
(* Values of a context: JSON-like values and RichText objects              *)

\* A string.
StrV(s) == [tag |-> "str", text |-> s, runs |-> <<>>, ref |-> 0]

\* None.
NullV == [tag |-> "null", text |-> <<>>, runs |-> <<>>, ref |-> 0]

\* A number.
NumV == [tag |-> "num", text |-> <<>>, runs |-> <<>>, ref |-> 0]

\* A nested mapping {"k": s}.
MapV(s) == [tag |-> "dict", text |-> s, runs |-> <<>>, ref |-> 0]

\* A list [s] nested inside a list.
NestedListV(s) == [tag |-> "list", text |-> s, runs |-> <<>>, ref |-> 0]

\* A list held by the context: a reference to a list object of the heap.
ListRef(id) == [tag |-> "list", text |-> <<>>, runs |-> <<>>, ref |-> id]

\* A RichText object with the given runs.
RtV(r) == [tag |-> "rt", text |-> <<>>, runs |-> r, ref |-> 0]

\* Line 72: key in (...)
ListFields == {"SUMMARY", "RESPONSIBILITIES_CH", "RESPONSIBILITIES_SS", "RESPONSIBILITIES_SM"}

\* Line 81: key in (...)
ScalarFields == {"ENGAGEMENT_SUMMARY_CH", "ENGAGEMENT_SUMMARY_SS", "ENGAGEMENT_SUMMARY_SM"}

\* A dict is the sequence of its items in insertion order, keys distinct.
DictKeys(d) == {d[k].key : k \in 1..Len(d)}

DictGet(d, key) == d[CHOOSE k \in 1..Len(d) : d[k].key = key].value

\* d[key] = value
DictSet(d, key, value) ==
    IF key \in DictKeys(d)
    THEN [k \in 1..Len(d) |-> IF d[k].key = key THEN [key |-> key, value |-> value] ELSE d[k]]
    ELSE Append(d, [key |-> key, value |-> value])

----------------------------------------------------------------------------
(* Input contexts                                                          *)

SBold == <<"a", STAR, STAR, "b", STAR, STAR, "c">>

SPlain == <<"d">>

SampleKeys == <<"SUMMARY", "RESPONSIBILITIES_CH", "ENGAGEMENT_SUMMARY_SS", "OTHER_FIELD">>

ItemValues == {StrV(SBold), StrV(SPlain), NullV, NumV, NestedListV(SBold), MapV(SBold)}

RECURSIVE ListsUpTo(_)
ListsUpTo(n) ==
    IF n = 0 THEN {<<>>}
    ELSE LET shorter == ListsUpTo(n - 1)
         IN  shorter \cup {Append(l, v) : l \in {t \in shorter : Len(t) = n - 1}, v \in ItemValues}

Absent == [kind |-> "absent", value |-> NullV, items |-> <<>>]

Scalar(v) == [kind |-> "scalar", value |-> v, items |-> <<>>]

ListOf(items) == [kind |-> "list", value |-> NullV, items |-> items]

\* What each sample key may hold in an input context.
Choices(key) ==
    IF key = "SUMMARY"
    THEN {Absent, Scalar(StrV(SBold)), Scalar(NullV)} \cup {ListOf(l) : l \in ListsUpTo(MaxItems)}
    ELSE IF key = "RESPONSIBILITIES_CH"
    THEN {Absent, ListOf(<<NullV, StrV(SPlain)>>)}
    ELSE IF key = "ENGAGEMENT_SUMMARY_SS"
    THEN {Absent, Scalar(StrV(SBold)), Scalar(NullV), ListOf(<<StrV(SBold)>>)}
    ELSE {Absent, Scalar(StrV(SBold))}

\* One choice for each of the first n sample keys.
RECURSIVE ChoicesUpTo(_)
ChoicesUpTo(n) ==
    IF n = 0 THEN {<<>>}
    ELSE {Append(cs, c) : cs \in ChoicesUpTo(n - 1), c \in Choices(SampleKeys[n])}

\* The context and heap that hold the chosen values, one list object per list.
RECURSIVE Build(_, _, _, _)
Build(choice, k, entries, h) ==
    IF k > Len(SampleKeys) THEN [context |-> entries, heap |-> h]
    ELSE LET c == choice[k]
         IN  IF c.kind = "absent" THEN Build(choice, k + 1, entries, h)
             ELSE IF c.kind = "scalar"
             THEN Build(choice, k + 1,
                        Append(entries, [key |-> SampleKeys[k], value |-> c.value]), h)
             ELSE Build(choice, k + 1,
                        Append(entries, [key |-> SampleKeys[k], value |-> ListRef(Len(h) + 1)]),
                        Append(h, c.items))

----------------------------------------------------------------------------
(* process_context_for_richtext: two invocations on the same context       *)

Procs == {1, 2}

\* Values the translator's variables hold while only the rewriter runs.
ParseIdle ==
    /\ text_value = <<>>
    /\ matches = <<>>
    /\ mi = 1
    /\ rt = <<>>
    /\ last_index = 0
    /\ ppc = "done"

\* processed_context = {} in each invocation, before the first key.
Init ==
    /\ \E choice \in ChoicesUpTo(Len(SampleKeys)) :
           LET b == Build(choice, 1, <<>>, <<>>)
           IN  /\ context_data = b.context
               /\ heap = b.heap
    /\ pc = [p \in Procs |-> "keys"]
    /\ ki = [p \in Procs |-> 1]
    /\ ii = [p \in Procs |-> 1]
    /\ processed_context = [p \in Procs |-> <<>>]
    /\ processed_list = [p \in Procs |-> 0]
    /\ ParseIdle

\* The (key, value) the for loop of invocation p is at.
CurKey(p) == context_data[ki[p]].key

CurValue(p) == context_data[ki[p]].value

\* Line 72: key in (...) and isinstance(value, list)
IsListTarget(key, value) == key \in ListFields /\ value.tag = "list"

\* Mutant: the scalar branch is taken for any value of a scalar field.
IsScalarTargetNoTypeCheck(key, value) == key \in ScalarFields

\* Line 81: key in (...) and isinstance(value, str)
IsScalarTarget(key, value) == key \in ScalarFields /\ value.tag = "str"

\* Mutant: the translation descends into nested lists and mappings.
ProcessItemRecursive(item) ==
    IF item.tag \in {"str", "list", "dict"}
    THEN RtV(attempt_to_parse_markdown(item.text))
    ELSE item

\* Lines 75-79: what is appended for one item.
ProcessItem(item) ==
    IF item.tag = "str" THEN RtV(attempt_to_parse_markdown(item.text)) ELSE item

\* Mutant: items that are not strings are dropped.
AppendItemSkipOthers(lst, item) ==
    IF item.tag = "str" THEN Append(lst, ProcessItem(item)) ELSE lst

\* Lines 75-79: processed_list.append(...)
AppendItem(lst, item) == Append(lst, ProcessItem(item))

\* Lines 72-73: the list branch; processed_list = [] is a new list object.
ListBegin(p) ==
    /\ pc[p] = "keys"
    /\ ki[p] <= Len(context_data)
    /\ IsListTarget(CurKey(p), CurValue(p))
    /\ heap' = Append(heap, <<>>)
    /\ processed_list' = [processed_list EXCEPT ![p] = Len(heap) + 1]
    /\ ii' = [ii EXCEPT ![p] = 1]
    /\ pc' = [pc EXCEPT ![p] = "items"]
    /\ UNCHANGED <<context_data, ki, processed_context>>
    /\ UNCHANGED parse_vars

\* Mutant: the translated item is written back into the input list.
ItemStepInPlace(p) ==
    /\ pc[p] = "items"
    /\ ii[p] <= Len(heap[CurValue(p).ref])
    /\ heap' = [heap EXCEPT ![CurValue(p).ref][ii[p]] = ProcessItem(@)]
    /\ ii' = [ii EXCEPT ![p] = @ + 1]
    /\ UNCHANGED <<context_data, pc, ki, processed_context, processed_list>>
    /\ UNCHANGED parse_vars

\* Lines 74-79: one iteration of "for item in value".
ItemStep(p) ==
    /\ pc[p] = "items"
    /\ ii[p] <= Len(heap[CurValue(p).ref])
    /\ heap' = [heap EXCEPT ![processed_list[p]] =
                    AppendItem(@, heap[CurValue(p).ref][ii[p]])]
    /\ ii' = [ii EXCEPT ![p] = @ + 1]
    /\ UNCHANGED <<context_data, pc, ki, processed_context, processed_list>>
    /\ UNCHANGED parse_vars

\* Line 80: processed_context[key] = processed_list
ListEnd(p) ==
    /\ pc[p] = "items"
    /\ ii[p] > Len(heap[CurValue(p).ref])
    /\ processed_context' = [processed_context EXCEPT ![p] =
                                 DictSet(@, CurKey(p), ListRef(processed_list[p]))]
    /\ ki' = [ki EXCEPT ![p] = @ + 1]
    /\ pc' = [pc EXCEPT ![p] = "keys"]
    /\ UNCHANGED <<context_data, heap, ii, processed_list>>
    /\ UNCHANGED parse_vars

\* Lines 81-82: processed_context[key] = attempt_to_parse_markdown(value)
ScalarField(p) ==
    /\ pc[p] = "keys"
    /\ ki[p] <= Len(context_data)
    /\ ~IsListTarget(CurKey(p), CurValue(p))
    /\ IsScalarTarget(CurKey(p), CurValue(p))
    /\ processed_context' = [processed_context EXCEPT ![p] =
                                 DictSet(@, CurKey(p), RtV(attempt_to_parse_markdown(CurValue(p).text)))]
    /\ ki' = [ki EXCEPT ![p] = @ + 1]
    /\ UNCHANGED <<context_data, heap, pc, ii, processed_list>>
    /\ UNCHANGED parse_vars

\* Lines 84-85: processed_context[key] = value
PassThrough(p) ==
    /\ pc[p] = "keys"
    /\ ki[p] <= Len(context_data)
    /\ ~IsListTarget(CurKey(p), CurValue(p))
    /\ ~IsScalarTarget(CurKey(p), CurValue(p))
    /\ processed_context' = [processed_context EXCEPT ![p] =
                                 DictSet(@, CurKey(p), CurValue(p))]
    /\ ki' = [ki EXCEPT ![p] = @ + 1]
    /\ UNCHANGED <<context_data, heap, pc, ii, processed_list>>
    /\ UNCHANGED parse_vars

\* Line 87: return processed_context
Return(p) ==
    /\ pc[p] = "keys"
    /\ ki[p] > Len(context_data)
    /\ pc' = [pc EXCEPT ![p] = "done"]
    /\ UNCHANGED <<context_data, heap, ki, ii, processed_context, processed_list>>
    /\ UNCHANGED parse_vars

Next ==
    \E p \in Procs :
        \/ ListBegin(p)
        \/ ItemStep(p)
        \/ ListEnd(p)
        \/ ScalarField(p)
        \/ PassThrough(p)
        \/ Return(p)

Spec == Init /\ [][Next]_vars

----------------------------------------------------------------------------
(* Vocabulary of the translator's properties                               *)

TwoStars == <<STAR, STAR>>

\* The runs as the (text, bold) pairs the properties speak of.
RunView(r) == [k \in 1..Len(r) |-> <<r[k].text, r[k].bold>>]

RECURSIVE ConcatText(_)
ConcatText(r) == IF r = <<>> THEN <<>> ELSE Head(r).text \o ConcatText(Tail(r))

\* s has ** at 1-based position k.
HasStars(s, k) == k >= 1 /\ k + 1 <= Len(s) /\ s[k] = STAR /\ s[k + 1] = STAR

ContainsStars(s) == \E k \in 1..Len(s) : HasStars(s, k)

ContainsNewline(s) == \E k \in 1..Len(s) : s[k] = NL

EndsWithStar(s) == s # <<>> /\ s[Len(s)] = STAR

\* s holds an opening ** and, after it and not overlapping it, a closing **.
HasDelimiterPair(s) ==
    \E k, l \in 1..Len(s) : HasStars(s, k) /\ HasStars(s, l) /\ l >= k + 2

\* The same, with no line break between the two delimiters.
HasCompletePair(s) ==
    \E k, l \in 1..Len(s) :
        /\ HasStars(s, k) /\ HasStars(s, l) /\ l >= k + 2
        /\ \A q \in (k + 2)..(l - 1) : s[q] # NL

\* The runs the A**B**C property expects.
ExpectedABC(A, B, C) ==
    (IF A = <<>> THEN <<>> ELSE << <<A, FALSE>> >>)
        \o << <<B, TRUE>> >>
        \o (IF C = <<>> THEN <<>> ELSE << <<C, FALSE>> >>)

\* text_value read as A**B**C with the delimiters at 1-based k and l.
PartA(s, k) == SubSeq(s, 1, k - 1)

PartB(s, k, l) == SubSeq(s, k + 2, l - 1)

PartC(s, l) == SubSeq(s, l + 2, Len(s))

IsABC(s, k, l) ==
    /\ HasStars(s, k) /\ HasStars(s, l)
    /\ l >= k + 3
    /\ ~ContainsStars(PartB(s, k, l))

\* s with every matched pair's delimiters removed, scanning left to right.
RECURSIVE StripFrom(_, _)
StripFrom(s, k) ==
    IF k > Len(s) THEN <<>>
    ELSE LET closers == {l \in (k + 2)..Len(s) :
                            /\ HasStars(s, l)
                            /\ \A q \in (k + 2)..(l - 1) : s[q] # NL}
         IN  IF HasStars(s, k) /\ closers # {}
             THEN LET l == CHOOSE x \in closers : \A y \in closers : x <= y
                  IN  SubSeq(s, k + 2, l - 1) \o StripFrom(s, l + 2)
             ELSE <<s[k]>> \o StripFrom(s, k + 1)

----------------------------------------------------------------------------
(* Properties of attempt_to_parse_markdown                                 *)

\* C1 as stated: for every reading of the input as A**B**C with B non-empty
\* and free of **, the runs are (A, plain) if A is non-empty, (B, bold),
\* (C, plain) if C is non-empty, and nothing else.
C1_AsStated ==
    ppc = "done" =>
        \A k, l \in 1..Len(text_value) :
            IsABC(text_value, k, l) =>
                RunView(rt) = ExpectedABC(PartA(text_value, k),
                                          PartB(text_value, k, l),
                                          PartC(text_value, l))

\* The readings of A**B**C for which the property holds of the scan.
WellDelimited(s, k, l) ==
    /\ IsABC(s, k, l)
    /\ ~HasCompletePair(PartA(s, k) \o TwoStars)
    /\ ~EndsWithStar(PartA(s, k))
    /\ ~ContainsNewline(PartB(s, k, l))
    /\ ~EndsWithStar(PartB(s, k, l))
    /\ ~HasCompletePair(PartC(s, l))

\* C1 amended: for every input A**B**C where B is non-empty, holds no **,
\* holds no line break and does not end with an asterisk, where A does not
\* end with an asterisk and A followed by the opening ** holds no complete
\* pair, and where C holds no complete pair (a complete pair being **, then
\* text without a line break, then **), the runs are (A, plain) if A is
\* non-empty, (B, bold), (C, plain) if C is non-empty, and nothing else.
C1_Amended ==
    ppc = "done" =>
        \A k, l \in 1..Len(text_value) :
            WellDelimited(text_value, k, l) =>
                RunView(rt) = ExpectedABC(PartA(text_value, k),
                                          PartB(text_value, k, l),
                                          PartC(text_value, l))

C1_Witness ==
    /\ ppc = "done"
    /\ Len(rt) = 3
    /\ \E k, l \in 1..Len(text_value) :
           /\ WellDelimited(text_value, k, l)
           /\ PartA(text_value, k) # <<>>
           /\ PartC(text_value, l) # <<>>
           /\ \E q \in 1..Len(PartB(text_value, k, l)) : PartB(text_value, k, l)[q] = STAR

\* C2: an input with no ** ... ** delimiter pair yields exactly one run,
\* not bold, whose text is the whole input.
C2_NoMarkersOneRun ==
    (ppc = "done" /\ ~HasDelimiterPair(text_value)) =>
        RunView(rt) = << <<text_value, FALSE>> >>

C2_Witness ==
    /\ ppc = "done"
    /\ ~HasDelimiterPair(text_value)
    /\ ContainsStars(text_value)
    /\ Len(text_value) >= 4
    /\ Len(rt) = 1

\* C3: the texts of the runs, concatenated in order, are the input with the
\* delimiters of every matched pair removed and everything else kept.
C3_Concatenation ==
    ppc = "done" => ConcatText(rt) = StripFrom(text_value, 1)

C3_Witness ==
    /\ ppc = "done"
    /\ Len(matches) = 2
    /\ \E k \in 1..Len(rt) : rt[k].bold
    /\ ConcatText(rt) # text_value

\* C4 as stated: the empty input yields zero runs.
C4_AsStated == (ppc = "done" /\ text_value = <<>>) => rt = <<>>

\* C4 amended: the empty input yields exactly one run, not bold, whose text
\* is empty.
C4_Amended ==
    (ppc = "done" /\ text_value = <<>>) => RunView(rt) = << << <<>>, FALSE >> >>

C4_Witness == ppc = "done" /\ text_value = <<>> /\ Len(rt) = 1

\* C5: the input **** yields zero runs, and no bold run ever has empty text.
C5_NoEmptyBold ==
    /\ (ppc = "done" /\ text_value = <<STAR, STAR, STAR, STAR>>) => rt = <<>>
    /\ \A k \in 1..Len(rt) : rt[k].bold => rt[k].text # <<>>

C5_Witness ==
    /\ ppc = "done"
    /\ text_value = <<STAR, STAR, STAR, STAR>>
    /\ Len(matches) = 1
    /\ matches[1].group = <<>>

\* C10: no bold run holds two consecutive asterisks, and the cursor
\* last_index never decreases.
C10_ShortestAndForward ==
    /\ [](\A k \in 1..Len(rt) : rt[k].bold => ~ContainsStars(rt[k].text))
    /\ [][last_index' >= last_index]_vars

C10_Witness ==
    /\ ppc = "done"
    /\ Len(matches) = 2
    /\ last_index = Len(text_value)
    /\ \E k \in 1..Len(rt) : rt[k].bold

----------------------------------------------------------------------------
(* Properties of process_context_for_richtext                              *)

Done(p) == pc[p] = "done"

IsListValue(v) == v.tag = "list" /\ v.ref > 0

\* The field qualifies for translation: a list field holding a list, or a
\* scalar field holding a string.
Qualifies(e) ==
    \/ e.key \in ListFields /\ IsListValue(e.value)
    \/ e.key \in ScalarFields /\ e.value.tag = "str"

\* The list objects the input context holds.
InputLists == {context_data[k].value.ref : k \in {j \in 1..Len(context_data) : IsListValue(context_data[j].value)}}

\* A dict by content: every list reference replaced by the list's elements.
Contents(d) ==
    [k \in 1..Len(d) |->
        [key |-> d[k].key,
         value |-> IF IsListValue(d[k].value) THEN ListRef(0) ELSE d[k].value,
         items |-> IF IsListValue(d[k].value) THEN heap[d[k].value.ref] ELSE <<>>]]

\* C6: the output has the same key set as the input, and for a list field
\* holding a list the output list has the same length and has null at
\* exactly the positions where the input list has null.
C6_ShapePreserved ==
    \A p \in Procs : Done(p) =>
        /\ DictKeys(processed_context[p]) = DictKeys(context_data)
        /\ Len(processed_context[p]) = Len(context_data)
        /\ \A k \in 1..Len(context_data) :
               LET e == context_data[k]
               IN  (e.key \in ListFields /\ IsListValue(e.value)) =>
                       LET out == DictGet(processed_context[p], e.key)
                       IN  /\ IsListValue(out)
                           /\ Len(heap[out.ref]) = Len(heap[e.value.ref])
                           /\ \A q \in 1..Len(heap[e.value.ref]) :
                                  (heap[out.ref][q] = NullV) <=> (heap[e.value.ref][q] = NullV)

C6_Witness ==
    /\ Done(1)
    /\ Len(context_data) >= 3
    /\ \E k \in 1..Len(context_data) :
           /\ context_data[k].key = "SUMMARY"
           /\ IsListValue(context_data[k].value)
           /\ Len(heap[context_data[k].value.ref]) = 2
           /\ heap[context_data[k].value.ref][1] = NullV
           /\ heap[context_data[k].value.ref][2].tag = "str"

\* C7: a field that does not qualify is passed through: the output holds
\* the very same value (for a list, the same list object).
C7_PassThrough ==
    \A p \in Procs : Done(p) =>
        \A k \in 1..Len(context_data) :
            ~Qualifies(context_data[k]) =>
                /\ context_data[k].key \in DictKeys(processed_context[p])
                /\ DictGet(processed_context[p], context_data[k].key) = context_data[k].value

C7_Witness ==
    /\ Done(1)
    /\ \E k \in 1..Len(context_data) :
           context_data[k] = [key |-> "OTHER_FIELD", value |-> StrV(SBold)]
    /\ \E k \in 1..Len(context_data) :
           /\ context_data[k].key = "ENGAGEMENT_SUMMARY_SS"
           /\ IsListValue(context_data[k].value)
    /\ \E k \in 1..Len(context_data) :
           context_data[k] = [key |-> "SUMMARY", value |-> NullV]

\* The runs of the two strings of the end-to-end scenario.
ScenarioFirst == << << <<"a">>, FALSE >>, << <<"b">>, TRUE >>, << <<"c">>, FALSE >> >>

ScenarioSecond == << << <<"d">>, FALSE >> >>

C9_InputUntouched ==
    /\ [][/\ context_data' = context_data
          /\ \A id \in InputLists : heap'[id] = heap[id]]_vars
    /\ []((Done(1) /\ Done(2)) =>
             Contents(processed_context[1]) = Contents(processed_context[2]))

C9_Witness ==
    /\ Done(1) /\ Done(2)
    /\ "SUMMARY" \in DictKeys(processed_context[1])
    /\ IsListValue(DictGet(processed_context[1], "SUMMARY"))
    /\ DictGet(processed_context[1], "SUMMARY").ref > DictGet(processed_context[2], "SUMMARY").ref
    /\ DictGet(processed_context[2], "SUMMARY").ref \notin InputLists
    /\ Len(heap[DictGet(processed_context[2], "SUMMARY").ref]) = 2

====
